---- MODULE Spec2Model ----
(***************************************************************************)
(* A model of the word-count pipeline of src/mapreduce.go:                 *)
(*   getInputStream -> mapper(mapFn) -> sorter(wordCountHeap) -> reducer   *)
(*   -> printing task, all started by main through an errgroup with a      *)
(* concurrency ceiling, sharing one cancellable context.                   *)
(*                                                                         *)
(* Characters are their ASCII codes, a string is a sequence of codes, a    *)
(* wordCount is a record [word, count].  Channels are unbuffered: a send   *)
(* and the matching receive are one joint step of the two goroutines.      *)
(***************************************************************************)
EXTENDS Integers, Sequences, FiniteSets, TLC

VARIABLES
    input,        \* the lines the reader r holds (fixed for a run)
    limit,        \* eg.SetLimit(runtime.GOMAXPROCS(0))
    launched,     \* how many eg.Go calls of main have returned
    outcome,      \* "none" until eg.Wait returns, then main's result
    st,           \* per task: "idle" | "run" | "ret" (f returned an error) | "done"
    ret,          \* per task: the error its function returned
    err,          \* errgroup's g.err (first error)
    cancelled,    \* ctx.Done() of the group's context is closed
    interrupted,  \* SIGTERM/SIGINT was delivered (signal.NotifyContext)
    closed,       \* per channel: number of close(ch) calls so far
    srcIdx,       \* getInputStream: lines handed to the mapper so far
    srcHas,       \* getInputStream: sc.Scan() returned a line not yet sent
    mq,           \* mapper: records of fn(l) still to send
    heap,         \* sorter: wcHeap
    sphase,       \* sorter: "drain" (first loop) | "emit" (second loop)
    sout,         \* sorter: <<heap.Pop(wcHeap)>> evaluated for the pending send
    wc,           \* reducer: the accumulator
    rpc,          \* reducer: "recv" (range input) | "send" (select on ch <- wc)
    rin,          \* reducer: <<in>> while blocked in the select
    delivered,    \* printing task: the records it received, in order
    cancelInDrain,\* history: ctx was cancelled while the sorter was draining
    recvAfterCancel, \* history: the sorter received a record with ctx cancelled
    received,     \* history: the records the sorter took from its input, in order
    emitted       \* history: the records the sorter sent downstream, in order

vars == <<input, limit, launched, outcome, st, ret, err, cancelled, interrupted,
          closed, srcIdx, srcHas, mq, heap, sphase, sout, wc, rpc, rin,
          delivered, cancelInDrain, recvAfterCancel, received, emitted>>

(***************************************************************************)
(* Bounds of the model                                                     *)
(***************************************************************************)
MaxLines == 2
MaxTokens == 3
MaxLineLen == 3

(***************************************************************************)
(* Strings                                                                 *)
(***************************************************************************)
Space == 32

\* unicode.IsSpace restricted to the ASCII codes: strings.Fields splits on these
IsSpace(c) == c \in {9, 10, 11, 12, 13, 32}

\* the complement of the class [^a-zA-Z] of nonAlpha
IsAlpha(c) == (c >= 65 /\ c <= 90) \/ (c >= 97 /\ c <= 122)

LowerChar(c) == IF c >= 65 /\ c <= 90 THEN c + 32 ELSE c

\* a mapFn without strings.ToLower
ToLowerSkipped(s) == s

\* strings.ToLower
ToLower(s) == [i \in 1..Len(s) |-> LowerChar(s[i])]

\* nonAlpha.ReplaceAllString(w, "")
StripNonAlpha(s) == SelectSeq(s, IsAlpha)

RECURSIVE FieldsFrom(_, _, _)
FieldsFrom(line, i, cur) ==
    IF i > Len(line)
    THEN IF cur = <<>> THEN <<>> ELSE <<cur>>
    ELSE IF IsSpace(line[i])
         THEN IF cur = <<>>
              THEN FieldsFrom(line, i + 1, <<>>)
              ELSE <<cur>> \o FieldsFrom(line, i + 1, <<>>)
         ELSE FieldsFrom(line, i + 1, Append(cur, line[i]))

\* strings.Fields
Fields(line) == FieldsFrom(line, 1, <<>>)

\* Go's < on strings: bytewise lexicographic
RECURSIVE StrLess(_, _)
StrLess(a, b) ==
    IF b = <<>> THEN FALSE
    ELSE IF a = <<>> THEN TRUE
    ELSE IF a[1] # b[1] THEN a[1] < b[1]
    ELSE StrLess(Tail(a), Tail(b))

(***************************************************************************)
(* mapFn                                                                   *)
(***************************************************************************)
Normalize(w) == ToLower(StripNonAlpha(w))

RECURSIVE MapWords(_)
MapWords(ws) ==
    IF ws = <<>> THEN <<>>
    ELSE LET w == Normalize(Head(ws))
         IN  (IF w # <<>> THEN <<[word |-> w, count |-> 1]>> ELSE <<>>)
             \o MapWords(Tail(ws))

mapFn(line) == MapWords(Fields(line))

(***************************************************************************)
(* wordCountHeap and container/heap                                        *)
(* Go indexes from 0; h[i + 1] is element i of the Go slice.               *)
(***************************************************************************)
\* a Less that compares the wrong way round
LessReversed(h, i, j) == StrLess(h[j + 1].word, h[i + 1].word)

Less(h, i, j) == StrLess(h[i + 1].word, h[j + 1].word)

Swap(h, i, j) == [h EXCEPT ![i + 1] = h[j + 1], ![j + 1] = h[i + 1]]

\* a Push that appends and never sifts up
upSkipped(h, j) == h

\* heap.up(h, j)
RECURSIVE up(_, _)
up(h, j) ==
    LET i == (j - 1) \div 2
    IN  IF j = 0 \/ i = j \/ ~Less(h, j, i) THEN h
        ELSE up(Swap(h, i, j), i)

\* a Pop that swaps and never sifts down
downSkipped(h, i, n) == h

\* heap.down(h, i0, n), as the heap it leaves
RECURSIVE down(_, _, _)
down(h, i, n) ==
    LET j1 == 2 * i + 1
        j2 == j1 + 1
        j  == IF j2 < n /\ Less(h, j2, j1) THEN j2 ELSE j1
    IN  IF j1 >= n THEN h
        ELSE IF ~Less(h, j, i) THEN h
        ELSE down(Swap(h, i, j), j, n)

\* heap.Push(wcHeap, x): wordCountHeap.Push appends, then up
HeapPush(h, x) == up(Append(h, x), Len(h))

\* heap.Pop(wcHeap): Swap(0, n), down(0, n), then wordCountHeap.Pop takes the last
HeapPopped(h) ==
    LET n == Len(h) - 1
    IN  down(Swap(h, 0, n), 0, n)

HeapPopValue(h) == HeapPopped(h)[Len(h)]

HeapPopRest(h) == SubSeq(HeapPopped(h), 1, Len(h) - 1)

(***************************************************************************)
(* reducer: the body of its loop                                           *)
(***************************************************************************)
ZeroWC == [word |-> <<>>, count |-> 0]

\* the reducer has to send wc before it takes in
ReducerEmits(acc, in) == acc.word # in.word /\ acc.word # <<>>

\* if wc.word != in.word { wc = in }; wc.count += in.count
ReducerAccumulate(acc, in) ==
    LET base == IF acc.word # in.word THEN in ELSE acc
    IN  [base EXCEPT !.count = @ + in.count]

(***************************************************************************)
(* Tasks, channels and the errgroup                                        *)
(***************************************************************************)
NumTasks == 5

TaskOrder == <<"source", "mapper", "sorter", "reducer", "consumer">>

Tasks == {TaskOrder[i] : i \in 1..NumTasks}

Channels == {"input", "mapped", "sorted", "reduced"}

\* the ceiling; at most NumTasks tasks ever run, so a larger GOMAXPROCS (or
\* no SetLimit at all) behaves as NumTasks
Limits == 1..NumTasks

\* a group whose slots are never given back: done tasks still count
ActiveNeverReleased == Cardinality({t \in Tasks : st[t] # "idle"})

\* the tasks holding a slot of the group's semaphore
Active == Cardinality({t \in Tasks : st[t] \in {"run", "ret"}})

\* a line source whose send is not in a select with ctx.Done()
SourceNeverCancelled == FALSE

\* a sorter given the signal's context instead of the group's
SorterAbortsOnSignalOnly == interrupted

\* a sorter whose first loop pushes without looking at ctx
SorterNeverAborts == FALSE

\* `case <-ctx.Done()` of the select of each stage is ready
SourceCtxDone == cancelled

MapperCtxDone == cancelled

SorterCtxDone == cancelled

ReducerCtxDone == cancelled

\* the non-blocking select of the sorter's first loop takes `case <-ctx.Done()`
\* (return ctx.Err()) rather than `default` (heap.Push)
SorterAborts == cancelled

\* a group made without WithContext: an error cancels nothing
NoCancelAfterReport(e) == cancelled

\* errgroup: g.errOnce.Do(func() { g.err = err; g.cancel(g.err) })
ErrAfterReport(e) == IF e # "nil" /\ err = "nil" THEN e ELSE err

CancelAfterReport(e) == cancelled \/ (e # "nil" /\ err = "nil")

SorterDraining == st["sorter"] = "run" /\ sphase = "drain"

\* a sorter that starts its second loop without waiting for the end of its input
SorterNeverWaits == TRUE

\* a mapper that never closes its channel: the sorter's range never ends
SorterInputNeverEnds == FALSE

\* a stage without `defer close(ch)`
CloseSkipped(c) == closed

\* the sorter's `for wc := range input` ends: the mapper has closed the channel
SorterInputEnded == closed["mapped"] > 0

\* defer close(ch) of a stage, run when its function returns
Close(c) == [closed EXCEPT ![c] = @ + 1]

(***************************************************************************)
(* Inputs                                                                  *)
(***************************************************************************)
\* the tokens lines are made of: "A1", "b", "c"
RawTokens == {<<65, 49>>, <<98>>, <<99>>}

RECURSIVE JoinTokens(_)
JoinTokens(ts) ==
    IF ts = <<>> THEN <<>>
    ELSE IF Len(ts) = 1 THEN ts[1]
    ELSE ts[1] \o <<Space>> \o JoinTokens(Tail(ts))

\* the lines of exactly k tokens
LinesOf(k) == {JoinTokens(ts) : ts \in [1..k -> RawTokens]}

\* the texts of at most n lines and at most b tokens in all
RECURSIVE InputsUpTo(_, _)
InputsUpTo(n, b) ==
    IF n = 0 THEN {<<>>}
    ELSE {<<>>} \cup
         UNION {{<<l>> \o rest : l \in LinesOf(k), rest \in InputsUpTo(n - 1, b - k)} :
                k \in 0..b}

Inputs == InputsUpTo(MaxLines, MaxTokens)

(***************************************************************************)
(* Initial state: main before its first eg.Go                              *)
(***************************************************************************)
Init ==
    /\ input \in Inputs
    /\ limit \in Limits
    /\ launched = 0
    /\ outcome = "none"
    /\ st = [t \in Tasks |-> "idle"]
    /\ ret = [t \in Tasks |-> "nil"]
    /\ err = "nil"
    /\ cancelled = FALSE
    /\ interrupted = FALSE
    /\ closed = [c \in Channels |-> 0]
    /\ srcIdx = 0
    /\ srcHas = FALSE
    /\ mq = <<>>
    /\ heap = <<>>
    /\ sphase = "drain"
    /\ sout = <<>>
    /\ wc = ZeroWC
    /\ rpc = "recv"
    /\ rin = <<>>
    /\ delivered = <<>>
    /\ cancelInDrain = FALSE
    /\ recvAfterCancel = FALSE
    /\ received = <<>>
    /\ emitted = <<>>

(***************************************************************************)
(* main: the five eg.Go calls, eg.Wait, and the signal                     *)
(***************************************************************************)
\* eg.Go(f): blocks while the group runs `limit` tasks, then starts f
Launch(t) ==
    /\ launched < NumTasks
    /\ TaskOrder[launched + 1] = t
    /\ Active < limit
    /\ launched' = launched + 1
    /\ st' = [st EXCEPT ![t] = "run"]
    /\ UNCHANGED <<input, limit, outcome, ret, err, cancelled, interrupted,
                   closed, srcIdx, srcHas, mq, heap, sphase, sout, wc, rpc,
                   rin, delivered, cancelInDrain, recvAfterCancel,
                   received, emitted>>

\* the errgroup's wrapper after f returned an error: record the first error and
\* cancel, then release the slot (g.done).  After a nil return the wrapper only
\* releases the slot, which is part of the step that returns.
Exit(t) ==
    /\ st[t] = "ret"
    /\ st' = [st EXCEPT ![t] = "done"]
    /\ err' = ErrAfterReport(ret[t])
    /\ cancelled' = CancelAfterReport(ret[t])
    /\ cancelInDrain' = (cancelInDrain \/ (~cancelled /\ cancelled' /\ SorterDraining))
    /\ UNCHANGED <<input, limit, launched, outcome, ret, interrupted, closed,
                   srcIdx, srcHas, mq, heap, sphase, sout, wc, rpc, rin,
                   delivered, recvAfterCancel,
                   received, emitted>>

\* eg.Wait(): returns g.err once every task is done (and cancels the context)
Wait ==
    /\ launched = NumTasks
    /\ \A t \in Tasks : st[t] = "done"
    /\ outcome = "none"
    /\ outcome' = IF err = "nil" THEN "success" ELSE err
    /\ cancelled' = TRUE
    /\ UNCHANGED <<input, limit, launched, st, ret, err, interrupted, closed,
                   srcIdx, srcHas, mq, heap, sphase, sout, wc, rpc, rin,
                   delivered, cancelInDrain, recvAfterCancel,
                   received, emitted>>

\* SIGTERM or SIGINT arrives: signal.NotifyContext cancels ctx and its children
Interrupt ==
    /\ ~interrupted
    /\ outcome = "none"
    /\ interrupted' = TRUE
    /\ cancelled' = TRUE
    /\ cancelInDrain' = (cancelInDrain \/ (~cancelled /\ SorterDraining))
    /\ UNCHANGED <<input, limit, launched, outcome, st, ret, err, closed,
                   srcIdx, srcHas, mq, heap, sphase, sout, wc, rpc, rin,
                   delivered, recvAfterCancel,
                   received, emitted>>

(***************************************************************************)
(* getInputStream                                                          *)
(***************************************************************************)
\* sc.Scan(): the next line, or the end of the input (sc.Err() = nil), or a
\* read error (sc.Err() # nil); the function returns in the last two cases
SourceScan ==
    /\ st["source"] = "run"
    /\ ~srcHas
    /\ \/ /\ srcIdx < Len(input)
          /\ srcHas' = TRUE
          /\ UNCHANGED <<st, ret, closed>>
       \/ /\ srcIdx = Len(input)
          /\ st' = [st EXCEPT !["source"] = "done"]
          /\ closed' = Close("input")
          /\ UNCHANGED <<srcHas, ret>>
       \/ /\ st' = [st EXCEPT !["source"] = "ret"]
          /\ ret' = [ret EXCEPT !["source"] = "read"]
          /\ closed' = Close("input")
          /\ UNCHANGED srcHas
    /\ UNCHANGED <<input, limit, launched, outcome, err, cancelled, interrupted,
                   srcIdx, mq, heap, sphase, sout, wc, rpc, rin, delivered,
                   cancelInDrain, recvAfterCancel,
                   received, emitted>>

\* case ch <- line, taken together with the mapper's `l := range input`
SendLine ==
    /\ st["source"] = "run"
    /\ srcHas
    /\ st["mapper"] = "run"
    /\ mq = <<>>
    /\ srcHas' = FALSE
    /\ srcIdx' = srcIdx + 1
    /\ mq' = mapFn(input[srcIdx + 1])
    /\ UNCHANGED <<input, limit, launched, outcome, st, ret, err, cancelled,
                   interrupted, closed, heap, sphase, sout, wc, rpc, rin,
                   delivered, cancelInDrain, recvAfterCancel,
                   received, emitted>>

\* case <-ctx.Done(): return ctx.Err()
SourceCancel ==
    /\ st["source"] = "run"
    /\ srcHas
    /\ SourceCtxDone
    /\ st' = [st EXCEPT !["source"] = "ret"]
    /\ ret' = [ret EXCEPT !["source"] = "canceled"]
    /\ closed' = Close("input")
    /\ UNCHANGED <<input, limit, launched, outcome, err, cancelled, interrupted,
                   srcIdx, srcHas, mq, heap, sphase, sout, wc, rpc, rin,
                   delivered, cancelInDrain, recvAfterCancel,
                   received, emitted>>

(***************************************************************************)
(* mapper                                                                  *)
(***************************************************************************)
\* `range input` ends: input is closed; return nil
MapperSeeClose ==
    /\ st["mapper"] = "run"
    /\ mq = <<>>
    /\ closed["input"] > 0
    /\ st' = [st EXCEPT !["mapper"] = "done"]
    /\ closed' = Close("mapped")
    /\ UNCHANGED <<input, limit, launched, outcome, ret, err, cancelled,
                   interrupted, srcIdx, srcHas, mq, heap, sphase, sout, wc,
                   rpc, rin, delivered, cancelInDrain, recvAfterCancel,
                   received, emitted>>

\* case ch <- wc, taken together with the sorter's `wc := range input` and the
\* select that follows it: ctx.Done() ready -> return ctx.Err(), else heap.Push
SendMapped ==
    /\ st["mapper"] = "run"
    /\ mq # <<>>
    /\ SorterDraining
    /\ mq' = Tail(mq)
    /\ received' = Append(received, Head(mq))
    /\ recvAfterCancel' = (recvAfterCancel \/ cancelled)
    /\ IF SorterAborts
       THEN /\ st' = [st EXCEPT !["sorter"] = "ret"]
            /\ ret' = [ret EXCEPT !["sorter"] = "canceled"]
            /\ closed' = Close("sorted")
            /\ UNCHANGED heap
       ELSE /\ heap' = HeapPush(heap, Head(mq))
            /\ UNCHANGED <<st, ret, closed>>
    /\ UNCHANGED <<input, limit, launched, outcome, err, cancelled, interrupted,
                   srcIdx, srcHas, sphase, sout, wc, rpc, rin, delivered,
                   cancelInDrain,
                   emitted>>

\* case <-ctx.Done(): return ctx.Err()
MapperCancel ==
    /\ st["mapper"] = "run"
    /\ mq # <<>>
    /\ MapperCtxDone
    /\ st' = [st EXCEPT !["mapper"] = "ret"]
    /\ ret' = [ret EXCEPT !["mapper"] = "canceled"]
    /\ closed' = Close("mapped")
    /\ UNCHANGED <<input, limit, launched, outcome, err, cancelled, interrupted,
                   srcIdx, srcHas, mq, heap, sphase, sout, wc, rpc, rin,
                   delivered, cancelInDrain, recvAfterCancel,
                   received, emitted>>

(***************************************************************************)
(* sorter                                                                  *)
(***************************************************************************)
\* `range input` ends: the second loop starts; with an empty heap the
\* function returns nil, else heap.Pop is evaluated for the first send
SorterSeeClose ==
    /\ SorterDraining
    /\ SorterInputEnded
    /\ sphase' = "emit"
    /\ IF Len(heap) > 0
       THEN /\ sout' = <<HeapPopValue(heap)>>
            /\ heap' = HeapPopRest(heap)
            /\ UNCHANGED <<st, closed>>
       ELSE /\ st' = [st EXCEPT !["sorter"] = "done"]
            /\ closed' = Close("sorted")
            /\ UNCHANGED <<sout, heap>>
    /\ UNCHANGED <<input, limit, launched, outcome, ret, err, cancelled,
                   interrupted, srcIdx, srcHas, mq, wc, rpc, rin, delivered,
                   cancelInDrain, recvAfterCancel,
                   received, emitted>>

\* case ch <- heap.Pop(wcHeap), taken together with the reducer's
\* `in := range input`: the reducer either has to send wc first, or accumulates
SendSorted ==
    /\ st["sorter"] = "run"
    /\ sphase = "emit"
    /\ sout # <<>>
    /\ st["reducer"] = "run"
    /\ rpc = "recv"
    /\ emitted' = Append(emitted, sout[1])
    /\ IF ReducerEmits(wc, sout[1])
       THEN /\ rpc' = "send"
            /\ rin' = sout
            /\ UNCHANGED wc
       ELSE /\ wc' = ReducerAccumulate(wc, sout[1])
            /\ UNCHANGED <<rpc, rin>>
    /\ IF Len(heap) > 0
       THEN /\ sout' = <<HeapPopValue(heap)>>
            /\ heap' = HeapPopRest(heap)
            /\ UNCHANGED <<st, closed>>
       ELSE /\ sout' = <<>>
            /\ st' = [st EXCEPT !["sorter"] = "done"]
            /\ closed' = Close("sorted")
            /\ UNCHANGED heap
    /\ UNCHANGED <<input, limit, launched, outcome, ret, err, cancelled,
                   interrupted, srcIdx, srcHas, mq, sphase, delivered,
                   cancelInDrain, recvAfterCancel,
                   received>>

\* case <-ctx.Done(): return ctx.Err()
SorterCancel ==
    /\ st["sorter"] = "run"
    /\ sphase = "emit"
    /\ sout # <<>>
    /\ SorterCtxDone
    /\ st' = [st EXCEPT !["sorter"] = "ret"]
    /\ ret' = [ret EXCEPT !["sorter"] = "canceled"]
    /\ closed' = Close("sorted")
    /\ UNCHANGED <<input, limit, launched, outcome, err, cancelled, interrupted,
                   srcIdx, srcHas, mq, heap, sphase, sout, wc, rpc, rin,
                   delivered, cancelInDrain, recvAfterCancel,
                   received, emitted>>

(***************************************************************************)
(* reducer and the printing task of main                                   *)
(***************************************************************************)
\* `range input` ends: return nil
ReducerSeeClose ==
    /\ st["reducer"] = "run"
    /\ rpc = "recv"
    /\ closed["sorted"] > 0
    /\ st' = [st EXCEPT !["reducer"] = "done"]
    /\ closed' = Close("reduced")
    /\ UNCHANGED <<input, limit, launched, outcome, ret, err, cancelled,
                   interrupted, srcIdx, srcHas, mq, heap, sphase, sout, wc,
                   rpc, rin, delivered, cancelInDrain, recvAfterCancel,
                   received, emitted>>

\* case ch <- wc, then wc = in; wc.count += in.count; taken together with
\* `wc := range reduced` of the printing task and its fmt.Printf, which
\* succeeds (ok) or fails: return err
SendReduced(ok) ==
    /\ st["reducer"] = "run"
    /\ rpc = "send"
    /\ st["consumer"] = "run"
    /\ delivered' = Append(delivered, wc)
    /\ wc' = ReducerAccumulate(wc, rin[1])
    /\ rpc' = "recv"
    /\ rin' = <<>>
    /\ IF ok
       THEN UNCHANGED <<st, ret>>
       ELSE /\ st' = [st EXCEPT !["consumer"] = "ret"]
            /\ ret' = [ret EXCEPT !["consumer"] = "write"]
    /\ UNCHANGED <<input, limit, launched, outcome, err, cancelled, interrupted,
                   closed, srcIdx, srcHas, mq, heap, sphase, sout,
                   cancelInDrain, recvAfterCancel,
                   received, emitted>>

\* case <-ctx.Done(): return ctx.Err()
ReducerCancel ==
    /\ st["reducer"] = "run"
    /\ rpc = "send"
    /\ ReducerCtxDone
    /\ st' = [st EXCEPT !["reducer"] = "ret"]
    /\ ret' = [ret EXCEPT !["reducer"] = "canceled"]
    /\ closed' = Close("reduced")
    /\ UNCHANGED <<input, limit, launched, outcome, err, cancelled, interrupted,
                   srcIdx, srcHas, mq, heap, sphase, sout, wc, rpc, rin,
                   delivered, cancelInDrain, recvAfterCancel,
                   received, emitted>>

\* `range reduced` ends: return nil
ConsumerSeeClose ==
    /\ st["consumer"] = "run"
    /\ closed["reduced"] > 0
    /\ st' = [st EXCEPT !["consumer"] = "done"]
    /\ UNCHANGED <<input, limit, launched, outcome, ret, err, cancelled,
                   interrupted, closed, srcIdx, srcHas, mq, heap, sphase, sout,
                   wc, rpc, rin, delivered, cancelInDrain, recvAfterCancel,
                   received, emitted>>

(***************************************************************************)
(* Specifications                                                          *)
(***************************************************************************)
\* the steps of the program: main and the five goroutines
Program ==
    \/ \E t \in Tasks : Launch(t)
    \/ \E t \in Tasks : Exit(t)
    \/ Wait
    \/ SourceScan
    \/ SendLine
    \/ SourceCancel
    \/ MapperSeeClose
    \/ SendMapped
    \/ MapperCancel
    \/ SorterSeeClose
    \/ SendSorted
    \/ SorterCancel
    \/ ReducerSeeClose
    \/ \E ok \in BOOLEAN : SendReduced(ok)
    \/ ReducerCancel
    \/ ConsumerSeeClose

Next == Program \/ Interrupt

Spec == Init /\ [][Next]_vars

\* the Go scheduler runs every goroutine that can take a step; the signal is
\* the environment's and may never come
FairSpec == Init /\ [][Next]_vars /\ WF_vars(Program)

(***************************************************************************)
(* Vocabulary of the claims                                                *)
(***************************************************************************)
\* eg.Wait has returned
Finished == outcome # "none"

AllDone == \A t \in Tasks : st[t] = "done"

\* an external interrupt, a read error or a write error has happened
Faulted == interrupted \/ ret["source"] = "read" \/ ret["consumer"] = "write"

\* a run that completed with no cancellation and no I/O failure
CleanRun == Finished /\ ~Faulted

(***************************************************************************)
(* An independent, non-streaming word count over the input                 *)
(***************************************************************************)
\* the normalized, non-empty tokens of all lines, in input order
RECURSIVE RefTokens(_)
RefTokens(ls) ==
    IF ls = <<>> THEN <<>>
    ELSE LET fs == Fields(Head(ls))
             ns == [i \in 1..Len(fs) |-> Normalize(fs[i])]
         IN  SelectSeq(ns, LAMBDA w : w # <<>>) \o RefTokens(Tail(ls))

RefWords == {RefTokens(input)[i] : i \in 1..Len(RefTokens(input))}

RefCount(w) == Cardinality({i \in 1..Len(RefTokens(input)) : RefTokens(input)[i] = w})

DeliveredWords == {delivered[i].word : i \in 1..Len(delivered)}

RECURSIVE SumCounts(_)
SumCounts(rs) == IF rs = <<>> THEN 0 ELSE Head(rs).count + SumCounts(Tail(rs))

\* the count the delivered records give to w
OutCount(w) == SumCounts(SelectSeq(delivered, LAMBDA r : r.word = w))

(***************************************************************************)
(* The stages run one after the other on the whole input                   *)
(***************************************************************************)
RECURSIVE AllRecords(_)
AllRecords(ls) ==
    IF ls = <<>> THEN <<>> ELSE mapFn(Head(ls)) \o AllRecords(Tail(ls))

RECURSIVE InsertByWord(_, _)
InsertByWord(r, rs) ==
    IF rs = <<>> THEN <<r>>
    ELSE IF StrLess(r.word, Head(rs).word) THEN <<r>> \o rs
    ELSE <<Head(rs)>> \o InsertByWord(r, Tail(rs))

RECURSIVE SortByWord(_)
SortByWord(rs) ==
    IF rs = <<>> THEN <<>> ELSE InsertByWord(Head(rs), SortByWord(Tail(rs)))

RECURSIVE RunReducer(_, _)
RunReducer(rs, acc) ==
    IF rs = <<>> THEN <<>>
    ELSE (IF ReducerEmits(acc, Head(rs)) THEN <<acc>> ELSE <<>>)
         \o RunReducer(Tail(rs), ReducerAccumulate(acc, Head(rs)))

SequentialOutput(ls) == RunReducer(SortByWord(AllRecords(ls)), ZeroWC)

(***************************************************************************)
(* C1: in a run without cancellation or I/O failure the word-to-count      *)
(* mapping of the delivered records equals the reference word count of the *)
(* input.                                                                  *)
(***************************************************************************)
C1_MatchesReference ==
    CleanRun => \A w \in RefWords \cup DeliveredWords : OutCount(w) = RefCount(w)

(***************************************************************************)
(* C2: in a run without cancellation or I/O failure the consumer receives  *)
(* exactly one record for each distinct normalized word of the input.      *)
(***************************************************************************)
C2_OneRecordPerWord ==
    CleanRun =>
        /\ DeliveredWords \subseteq RefWords
        /\ \A w \in RefWords :
               Cardinality({i \in 1..Len(delivered) : delivered[i].word = w}) = 1

(***************************************************************************)
(* C3: in a run without cancellation or I/O failure the counts of the      *)
(* output records sum to the number of normalized non-empty tokens.        *)
(***************************************************************************)
C3_TokensConserved == CleanRun => SumCounts(delivered) = Len(RefTokens(input))

(***************************************************************************)
(* C4: in every reachable state of every run, cancelled or not, the        *)
(* records delivered so far are strictly ascending by word.                *)
(***************************************************************************)
C4_StrictlyAscending ==
    \A i \in 1..(Len(delivered) - 1) :
        StrLess(delivered[i].word, delivered[i + 1].word)

C4_Witness == Len(delivered) >= 2

(***************************************************************************)
(* C5: if the cancellation signal is triggered while the sorter is in its  *)
(* drain phase, the run never ends with a success outcome.                 *)
(***************************************************************************)
C5_CancelInDrainFails == (cancelInDrain /\ Finished) => outcome # "success"

\* C5 as amended: if the cancellation signal is triggered while the sorter is
\* in its drain phase and the sorter then receives a further record, the run
\* never ends with a success outcome: it ends with the first failure reported,
\* a cancellation failure unless an I/O error was reported.
C5_CancelThenRecordFails ==
    (cancelInDrain /\ recvAfterCancel /\ Finished) =>
        /\ outcome # "success"
        /\ (ret["source"] # "read" /\ ret["consumer"] # "write") => outcome = "canceled"

C5_Witness ==
    /\ cancelInDrain
    /\ recvAfterCancel
    /\ ret["sorter"] = "canceled"
    /\ outcome = "canceled"

(***************************************************************************)
(* C7: first-failure-wins: the failure slot is assigned at most once, a    *)
(* reported failure sets the cancellation signal, the outcome is the first *)
(* failure reported, and with no external interrupt a read error of the    *)
(* line source makes the outcome that read error.                          *)
(***************************************************************************)
C7_FirstFailureWins ==
    /\ [][err # "nil" => err' = err]_vars
    /\ [][\A t \in Tasks :
            (st[t] = "ret" /\ st'[t] = "done" /\ err = "nil")
                => (err' = ret[t] /\ cancelled')]_vars
    /\ [](err # "nil" => cancelled)
    /\ [](Finished => outcome = IF err = "nil" THEN "success" ELSE err)
    /\ []((Finished /\ ~interrupted /\ ret["source"] = "read") => outcome = "read")

(***************************************************************************)
(* C8: for every positive ceiling, a run with no cancellation and no I/O   *)
(* failure never deadlocks: as long as it has not returned success, some   *)
(* step of the program can be taken.                                       *)
(***************************************************************************)
C8_NoCeilingDeadlock ==
    ~Faulted => ((Finished /\ outcome = "success") \/ ENABLED Program)

(***************************************************************************)
(* C9: if the printing task fails with a write error and there is no       *)
(* external cancellation and no read error, the cancellation signal is     *)
(* set, every task terminates and the outcome is that write error.         *)
(***************************************************************************)
C9_WriteErrorWins ==
    /\ (ret["consumer"] = "write") ~> (cancelled /\ AllDone /\ Finished)
    /\ [](err = "write" => cancelled)
    /\ []((Finished /\ ret["consumer"] = "write" /\ ~interrupted
                    /\ ret["source"] # "read") => outcome = "write")

\* the reducer was blocked in its send when the write error cancelled the group
C9_Witness ==
    /\ outcome = "write"
    /\ ~interrupted
    /\ ret["reducer"] = "canceled"

(***************************************************************************)
(* C10: for a fixed input and no cancellation or I/O failure, every        *)
(* interleaving delivers the same sequence of records: the one the stages  *)
(* give when run one after the other on the input.                         *)
(***************************************************************************)
C10_Deterministic == CleanRun => delivered = SequentialOutput(input)

\* a completed run whose heap held two records with the same word
C10_Witness ==
    /\ CleanRun
    /\ \E i \in 1..Len(delivered) : delivered[i].count > 2

(***************************************************************************)
(* C6: after the cancellation signal is triggered, under fair scheduling   *)
(* every task terminates and eg.Wait returns: no task stays blocked on a   *)
(* channel send or receive.                                                *)
(***************************************************************************)
C6_CancelTerminates == cancelled ~> (AllDone /\ Finished)

\* a task was blocked in a send no peer will take, and left it on ctx.Done()
C6_Witness ==
    /\ limit = 1
    /\ ret["source"] = "canceled"
    /\ Finished

(***************************************************************************)
(* C11: a run on an empty input (zero lines) with no cancellation and no   *)
(* I/O failure delivers zero records and terminates with success: while    *)
(* eg.Wait has not returned some step of the program can be taken, and     *)
(* when it returns the outcome is success.                                 *)
(***************************************************************************)
C11_EmptyInputSucceeds ==
    (input = <<>> /\ ~Faulted) =>
        /\ delivered = <<>>
        /\ Finished => outcome = "success"
        /\ Finished \/ ENABLED Program

\* the run on the empty input is over: every stage saw its input closed
C11_Witness ==
    /\ input = <<>>
    /\ CleanRun
    /\ AllDone
    /\ \A c \in Channels : closed[c] = 1

(***************************************************************************)
(* C12: when the reducer's input is closed while it holds an accumulator   *)
(* with a non-empty word, the reducer has sent that accumulator as its     *)
(* last record by the time it returns and closes its output.               *)
(***************************************************************************)
C12_FinalAccumulatorEmitted ==
    (/\ ~Faulted
     /\ st["reducer"] = "done"
     /\ ret["reducer"] = "nil"
     /\ wc.word # <<>>)
    => (delivered # <<>> /\ delivered[Len(delivered)] = wc)

\* the records the reducer has processed: those the sorter sent, less the one
\* the reducer holds in `in` while it is blocked sending the accumulator
Processed == IF rpc = "send" THEN SubSeq(emitted, 1, Len(emitted) - 1) ELSE emitted

\* the sum of the counts of the last group of rs: its longest suffix of
\* records that carry the word of its last record
RECURSIVE GroupSum(_)
GroupSum(rs) ==
    IF rs = <<>> THEN 0
    ELSE LET n == Len(rs)
             front == SubSeq(rs, 1, n - 1)
         IN  IF n > 1 /\ rs[n - 1].word = rs[n].word
             THEN GroupSum(front) + rs[n].count
             ELSE rs[n].count

(***************************************************************************)
(* C13: after the reducer has processed an input record, its accumulator   *)
(* holds the word of that record and the sum of the counts of the          *)
(* consecutive records of the current group: a record that starts a group  *)
(* sets the accumulator to that record's word and count, a record of the   *)
(* same word adds its count once.                                          *)
(***************************************************************************)
C13_AccumulatorIsGroupSum ==
    Processed # <<>> =>
        /\ wc.word = Processed[Len(Processed)].word
        /\ wc.count = GroupSum(Processed)

(***************************************************************************)
(* C14: the sorter is a barrier.  It hands no record downstream, and takes *)
(* none out of its heap, before it has seen its input channel closed;      *)
(* every send comes after its last receive; it never inserts into the heap *)
(* after it has extracted from it.                                         *)
(***************************************************************************)
C14_SorterBarrier ==
    /\ []((sphase = "emit" \/ sout # <<>> \/ emitted # <<>>) => closed["mapped"] > 0)
    /\ [][(sout # <<>> \/ emitted # <<>>) => received' = received]_vars
    /\ [][(sphase = "emit") => Len(heap') <= Len(heap)]_vars
    /\ [][Len(heap') < Len(heap) => sphase' = "emit"]_vars

\* the sorter took three records, then sent one
C14_Witness ==
    /\ Len(received) >= 3
    /\ emitted # <<>>

\* rs is in non-decreasing order of word
NonDecreasing(rs) ==
    \A i \in 1..(Len(rs) - 1) : ~StrLess(rs[i + 1].word, rs[i].word)

\* a and b hold the same records the same number of times
SameRecords(a, b) ==
    /\ Len(a) = Len(b)
    /\ \A i \in 1..Len(a) :
          Cardinality({k \in 1..Len(a) : a[k] = a[i]})
              = Cardinality({k \in 1..Len(b) : b[k] = a[i]})

(***************************************************************************)
(* C15: the records the sorter emits are a permutation of the records it   *)
(* received, in non-decreasing order of word; each record it extracts has  *)
(* the smallest word among those the heap held.  (Stated for every sorter  *)
(* that has not returned ctx.Err(), which covers the runs without          *)
(* cancellation.)                                                          *)
(***************************************************************************)
C15_SorterSorts ==
    /\ NonDecreasing(emitted \o sout)
    /\ sout # <<>> => \A i \in 1..Len(heap) : ~StrLess(heap[i].word, sout[1].word)
    /\ ret["sorter"] = "nil" => SameRecords(emitted \o sout \o heap, received)
    /\ (st["sorter"] = "done" /\ ret["sorter"] = "nil") =>
           (heap = <<>> /\ sout = <<>> /\ SameRecords(emitted, received))

\* the sorter returned nil after taking three records that did not arrive in
\* order, two of them equal
C15_Witness ==
    /\ ~Faulted
    /\ st["sorter"] = "done"
    /\ Len(emitted) = 3
    /\ emitted # received
    /\ emitted[1] = emitted[2]

(***************************************************************************)
(* C16: a record that reaches the sorter in its first loop after the       *)
(* context was cancelled is not inserted: the sorter returns ctx.Err() at  *)
(* once, closing its output, and never starts its second loop, so it hands *)
(* no record downstream in that run.                                       *)
(***************************************************************************)
C16_AbortOnRecordAfterCancel ==
    /\ [][(cancelled /\ received' # received) =>
             /\ heap' = heap
             /\ st'["sorter"] = "ret"
             /\ ret'["sorter"] = "canceled"
             /\ closed'["sorted"] = 1]_vars
    /\ [](recvAfterCancel =>
             /\ ret["sorter"] = "canceled"
             /\ st["sorter"] \in {"ret", "done"}
             /\ sphase = "drain"
             /\ sout = <<>>
             /\ emitted = <<>>
             /\ delivered = <<>>)
    /\ []((recvAfterCancel /\ Finished) => outcome # "success")

\* the sorter held two records when the third arrived after a cancellation
C16_Witness ==
    /\ recvAfterCancel
    /\ Len(heap) = 2
    /\ Len(received) = 3
    /\ Finished

(***************************************************************************)
(* The pipeline run on one line of arbitrary characters: the mapper's      *)
(* records are those of mq (still to send) and of received (sent).         *)
(***************************************************************************)
\* ' ', '1', 'A', 'b'
MapChars == {32, 49, 65, 98}

\* "123 !!! --", and a line with tabs, punctuation inside a token and capitals
ExampleLines ==
    {<<49, 50, 51, 32, 33, 33, 33, 32, 45, 45>>,
     <<9, 67, 45, 97, 84, 9, 9, 46, 32, 98, 33>>}

MapLines == UNION {[1..k -> MapChars] : k \in 0..MaxLineLen} \cup ExampleLines

MapInit ==
    /\ input \in {<<l>> : l \in MapLines}
    /\ limit = NumTasks
    /\ launched = 0
    /\ outcome = "none"
    /\ st = [t \in Tasks |-> "idle"]
    /\ ret = [t \in Tasks |-> "nil"]
    /\ err = "nil"
    /\ cancelled = FALSE
    /\ interrupted = FALSE
    /\ closed = [c \in Channels |-> 0]
    /\ srcIdx = 0
    /\ srcHas = FALSE
    /\ mq = <<>>
    /\ heap = <<>>
    /\ sphase = "drain"
    /\ sout = <<>>
    /\ wc = ZeroWC
    /\ rpc = "recv"
    /\ rin = <<>>
    /\ delivered = <<>>
    /\ cancelInDrain = FALSE
    /\ recvAfterCancel = FALSE
    /\ received = <<>>
    /\ emitted = <<>>

MapSpec == MapInit /\ [][Next]_vars

\* the claim's vocabulary, written without the model's string operators
Whitespace == {9, 10, 11, 12, 13, 32}

UpperLetters == 65..90

LowerLetters == 97..122

LettersOf(tok) == SelectSeq(tok, LAMBDA c : c \in UpperLetters \cup LowerLetters)

Lowered(s) == [i \in 1..Len(s) |-> IF s[i] \in UpperLetters THEN s[i] + 32 ELSE s[i]]

\* position i starts a token: a non-blank at the start or after a blank
TokenStart(line, i) ==
    /\ line[i] \notin Whitespace
    /\ i = 1 \/ line[i - 1] \in Whitespace

\* the last position of the token that starts at i
TokenEnd(line, i) ==
    CHOOSE j \in i..Len(line) :
        /\ \A k \in i..j : line[k] \notin Whitespace
        /\ j = Len(line) \/ line[j + 1] \in Whitespace

\* the records the claim expects for the tokens of line from position i on
RECURSIVE ExpectedFrom(_, _)
ExpectedFrom(line, i) ==
    IF i > Len(line) THEN <<>>
    ELSE IF ~TokenStart(line, i) THEN ExpectedFrom(line, i + 1)
    ELSE LET j == TokenEnd(line, i)
             w == Lowered(LettersOf(SubSeq(line, i, j)))
         IN  (IF w = <<>> THEN <<>> ELSE <<[word |-> w, count |-> 1]>>)
             \o ExpectedFrom(line, j + 1)

\* the records the mapper has made so far, in the order it sends them
MapperRecords == received \o mq

(***************************************************************************)
(* C17: every record the mapper emits has count 1 and a non-empty word of  *)
(* lowercase ASCII letters only, which is its whitespace-delimited token   *)
(* with the non-letters removed and the rest lowercased; a token that      *)
(* normalizes to the empty string gives no record, so a line without any   *)
(* letter gives no record at all.                                          *)
(***************************************************************************)
C17_MapperRecords ==
    /\ \A i \in 1..Len(MapperRecords) :
          /\ MapperRecords[i].count = 1
          /\ MapperRecords[i].word # <<>>
          /\ \A k \in 1..Len(MapperRecords[i].word) :
                MapperRecords[i].word[k] \in LowerLetters
    /\ srcIdx = 1 => MapperRecords = ExpectedFrom(input[1], 1)
    /\ (\A k \in 1..Len(input[1]) : input[1][k] \notin UpperLetters \cup LowerLetters)
           => MapperRecords = <<>>

\* the line "A 1": the mapper sent {a, 1} for "A", nothing for "1", and returned
C17_Witness ==
    /\ input = <<<<65, 32, 49>>>>
    /\ st["mapper"] = "done"
    /\ received = <<[word |-> <<97>>, count |-> 1]>>
    /\ mq = <<>>

\* the mapper returned on "123 !!! --" without a record
C17_NoLetterWitness ==
    /\ input = <<<<49, 50, 51, 32, 33, 33, 33, 32, 45, 45>>>>
    /\ srcIdx = 1
    /\ st["mapper"] = "done"
    /\ received = <<>>

IsPrefix(a, b) == Len(a) <= Len(b) /\ SubSeq(b, 1, Len(a)) = a

(***************************************************************************)
(* C18: in a run that ends in failure (interrupt, read error or write      *)
(* error) the records delivered are a prefix of those a failure-free run   *)
(* of the program on the same input delivers: no stage sorts, totals and   *)
(* outputs a truncated input as if it were complete.                       *)
(***************************************************************************)
C18_FailureDeliversPrefix ==
    (Finished /\ outcome # "success") => IsPrefix(delivered, SequentialOutput(input))

(***************************************************************************)
(* C19: with a ceiling of at least five (or none), a run with no           *)
(* cancellation and no I/O failure never deadlocks: until eg.Wait has      *)
(* returned some step of the program can be taken, and when it has, all    *)
(* five tasks are done and the outcome is success.                         *)
(***************************************************************************)
C19_NoDeadlockAtFullCeiling ==
    (limit >= NumTasks /\ ~Faulted) =>
        IF Finished THEN AllDone /\ outcome = "success"
        ELSE ENABLED Program

\* a completed run of two lines in which all five tasks ran at once
C19_Witness ==
    /\ limit >= NumTasks
    /\ CleanRun
    /\ Len(input) = 2
    /\ Len(emitted) = 3
    /\ delivered # <<>>

\* the stage that makes, fills and closes channel c
Producer(c) ==
    CASE c = "input" -> "source"
      [] c = "mapped" -> "mapper"
      [] c = "sorted" -> "sorter"
      [] c = "reduced" -> "reducer"

(***************************************************************************)
(* C20: channel discipline.  Each channel is closed only by the stage that *)
(* produces it, in the step in which that stage returns, whatever it       *)
(* returns: it is closed exactly when its producer has returned, never     *)
(* twice, and no record or line is sent on a closed channel.               *)
(***************************************************************************)
C20_ChannelDiscipline ==
    /\ [](\A c \in Channels : closed[c] <= 1)
    /\ [](\A c \in Channels : closed[c] = 1 <=> st[Producer(c)] \in {"ret", "done"})
    /\ [][\A c \in Channels :
             closed'[c] # closed[c] =>
                 /\ st[Producer(c)] = "run"
                 /\ st'[Producer(c)] \in {"ret", "done"}]_vars
    /\ [][/\ srcIdx' # srcIdx => closed["input"] = 0
          /\ received' # received => closed["mapped"] = 0
          /\ emitted' # emitted => closed["sorted"] = 0
          /\ delivered' # delivered => closed["reduced"] = 0]_vars

\* every channel is closed, by producers that returned nil, a read error and
\* ctx.Err(), after records went through every channel
C20_Witness ==
    /\ \A c \in Channels : closed[c] = 1
    /\ ret["source"] = "read"
    /\ ret["mapper"] = "nil"
    /\ ret["reducer"] = "canceled"
    /\ delivered # <<>>

====
